---- MODULE Spec2Model ----
(***************************************************************************)
(* Model of the Lambda handler of src/src/main.rs: the entry router        *)
(* function_handler, the upload processor s3_event_handler, the report     *)
(* cycle send_daily_report_mail and the DynamoDB adapter functions.        *)
(*                                                                         *)
(* Strings are sequences of one-character strings, so that starts_with,    *)
(* replace, concatenation, to_string and parse are computed as the code    *)
(* computes them.  Option<T> is a sequence of length 0 (None) or 1 (Some). *)
(*                                                                         *)
(* The object storage, the table and the mail transport are external: an   *)
(* operation on them either fails (transport / permission error) or takes  *)
(* effect as a consistent key-value operation.  A GetObject response       *)
(* always carries a content type and a content length.                     *)
(*                                                                         *)
(* Spec runs the invocations one at a time, as one instance of the         *)
(* function does; RaceSpec lets two instances overlap on the same table,   *)
(* storage and mail transport.                                             *)
(***************************************************************************)
EXTENDS Integers, Sequences, FiniteSets

(* ------------------------------ bounds --------------------------------- *)
MaxBatch == 2        \* longest notification batch of one invocation
MaxInvocations == 2  \* number of invocations the runtime dispatches

(* --------------------------- string literals --------------------------- *)
THUMBNAIL_PREFIX == <<"t","h","u","m","b","n","a","i","l","-">>
OBJECT_CREATED == <<"O","b","j","e","c","t","C","r","e","a","t","e","d">>
EV_PUT == <<"O","b","j","e","c","t","C","r","e","a","t","e","d",":","P","u","t">>
EV_DELETE == <<"O","b","j","e","c","t","R","e","m","o","v","e","d",":","D","e","l","e","t","e">>
IMAGE == <<"i","m","a","g","e">>
IMAGE_PNG == <<"i","m","a","g","e","/","p","n","g">>
IMAGE_JPEG == <<"i","m","a","g","e","/","j","p","e","g">>
IMAGE_JPG == <<"i","m","a","g","e","/","j","p","g">>
IMAGE_SVG == <<"i","m","a","g","e","/","s","v","g","+","x","m","l">>
TEXT_PLAIN == <<"t","e","x","t","/","p","l","a","i","n">>
S3_SCHEME == <<"s","3",":","/","/">>
PARTITION_VALUE == <<"1","2","3","4","5","6">>
BUCKET == <<"b">>
NAME_AB == <<"a"," ","b">>
NAME_V == <<"v">>
NAME_TX == <<"t","h","u","m","b","n","a","i","l","x">>
NAME_TN == <<"t","h","u","m","b","n","a","i","l","-","n">>
DIGITS == <<"0","1","2","3","4","5","6","7","8","9">>

(* ------------------------------ Option --------------------------------- *)
None == <<>>
Some(x) == <<x>>
IsSome(o) == Len(o) = 1
Unwrap(o) == o[1]

(* --------------------------- str operations ---------------------------- *)
\* str::starts_with
StartsWith(s, prefix) ==
  /\ Len(s) >= Len(prefix)
  /\ SubSeq(s, 1, Len(prefix)) = prefix

\* str::replace for one-character patterns
Replace(s, from, to) == [i \in 1..Len(s) |-> IF s[i] = from THEN to ELSE s[i]]

\* i64::to_string
RECURSIVE DigitsOf(_)
DigitsOf(n) ==
  IF n < 10 THEN <<DIGITS[n + 1]>>
  ELSE DigitsOf(n \div 10) \o <<DIGITS[(n % 10) + 1]>>

ToString_OneDigit(n) == <<DIGITS[(n % 10) + 1]>>

ToString(n) == IF n < 0 THEN <<"-">> \o DigitsOf(0 - n) ELSE DigitsOf(n)

\* str::parse::<i64>: an optional sign followed by at least one digit
DigitValue(c) == (CHOOSE k \in 1..10 : DIGITS[k] = c) - 1
IsDigit(c) == \E k \in 1..10 : DIGITS[k] = c

RECURSIVE ParseDigits(_, _)
ParseDigits(s, acc) ==
  IF s = <<>> THEN acc
  ELSE ParseDigits(Tail(s), acc * 10 + DigitValue(Head(s)))

ParseI64(s) ==
  LET signed == s # <<>> /\ Head(s) \in {"-", "+"}
      body == IF signed THEN Tail(s) ELSE s
  IN IF body = <<>> \/ \E i \in 1..Len(body) : ~IsDigit(body[i]) THEN None
     ELSE IF s # <<>> /\ Head(s) = "-" THEN Some(0 - ParseDigits(body, 0))
     ELSE Some(ParseDigits(body, 0))

(* ---------------------- the notification records ----------------------- *)
\* S3EventRecord: the three optional fields get_file_props reads
Record(event_name, bucket, key) ==
  [event_name |-> event_name, bucket |-> bucket, key |-> key]

\* the key of an object as the notification carries it (space sent as +)
UrlEncode(key) == Replace(key, " ", "+")

\* get_file_props: Ok((bucket, key)) or Err
GetFileProps_NoEventFilter(record) ==
  IF ~(IsSome(record.bucket) /\ Unwrap(record.bucket) # <<>>) THEN None
  ELSE IF ~(IsSome(record.key) /\ Unwrap(record.key) # <<>>) THEN None
  ELSE Some([bucket |-> Unwrap(record.bucket), key |-> Unwrap(record.key)])

GetFileProps(record) ==
  IF ~(IsSome(record.event_name)
       /\ StartsWith(Unwrap(record.event_name), OBJECT_CREATED)) THEN None
  ELSE IF ~(IsSome(record.bucket) /\ Unwrap(record.bucket) # <<>>) THEN None
  ELSE IF ~(IsSome(record.key) /\ Unwrap(record.key) # <<>>) THEN None
  ELSE Some([bucket |-> Unwrap(record.bucket), key |-> Unwrap(record.key)])

\* let object_name = key.replace("+", " ")
ObjectName(key) == Replace(key, "+", " ")

\* let s3_uri = "s3://" + bucket + "/" + object_name
S3Uri(bucket, object_name) == S3_SCHEME \o bucket \o <<"/">> \o object_name

\* object_name.starts_with("thumbnail-")
RecursionGuard_NoDash(object_name) ==
  StartsWith(object_name, SubSeq(THUMBNAIL_PREFIX, 1, 9))

RecursionGuard_Never(object_name) == FALSE

RecursionGuard(object_name) == StartsWith(object_name, THUMBNAIL_PREFIX)

\* object_type.starts_with("image") and supported_image_formats.contains
SupportedFormats == {IMAGE_PNG, IMAGE_JPEG, IMAGE_JPG}

IsImage(object_type) == StartsWith(object_type, IMAGE)

IsSupported_AnyImage(object_type) == TRUE

IsSupported(object_type) == object_type \in SupportedFormats

\* let thumbnail_key = "thumbnail-" + object_name
ThumbnailKey(object_name) == THUMBNAIL_PREFIX \o object_name

(* --------------------------- the table items --------------------------- *)
AttrS(v) == [t |-> "S", v |-> v]
AttrN(v) == [t |-> "N", v |-> v]

S3ObjectInfo(s3_uri, object_name, object_type, object_size) ==
  [s3_uri |-> s3_uri, object_name |-> object_name,
   object_type |-> object_type, object_size |-> object_size]

\* convert_s3_info_into_attribute_map
ConvertS3InfoIntoAttributeMap(s3_info) ==
  [s3_uri |-> AttrS(s3_info.s3_uri),
   object_name |-> AttrS(s3_info.object_name),
   object_type |-> AttrS(s3_info.object_type),
   object_size |-> AttrN(ToString(s3_info.object_size))]

\* the item put_s3_info_in_db sends: the attribute map and the two key fields
PutItem(s3_info) ==
  LET m == ConvertS3InfoIntoAttributeMap(s3_info)
  IN [this_is_a_partition_key |-> AttrS(PARTITION_VALUE),
      a_sort_key |-> AttrS(s3_info.s3_uri),
      s3_uri |-> m.s3_uri, object_name |-> m.object_name,
      object_type |-> m.object_type, object_size |-> m.object_size]

\* convert_attribute_map_into_s3_info: None stands for a panicking unwrap
ConvertAttributeMapIntoS3Info(item) ==
  IF \/ item.s3_uri.t # "S" \/ item.object_name.t # "S"
     \/ item.object_type.t # "S" \/ item.object_size.t # "N"
     \/ ParseI64(item.object_size.v) = None
  THEN None
  ELSE Some(S3ObjectInfo(item.s3_uri.v, item.object_name.v, item.object_type.v,
                         Unwrap(ParseI64(item.object_size.v))))

\* the primary key of an item
ItemKey(item) == <<item.this_is_a_partition_key, item.a_sort_key>>

\* PutItem on the table: upsert by primary key
TablePut_Append(table, item) == table \cup {item}

TablePut(table, item) ==
  {it \in table : ItemKey(it) # ItemKey(item)} \cup {item}

\* the key delete_s3_info_from_db builds for one record
DeleteKey_ObjectName(info) == <<AttrS(PARTITION_VALUE), AttrS(info.object_name)>>

DeleteKey(info) == <<AttrS(PARTITION_VALUE), AttrS(info.s3_uri)>>

\* DeleteItem on the table
TableDelete(table, key) == {it \in table : ItemKey(it) # key}

\* the sequences that hold every element of S once
Orderings(S) ==
  {s \in [1..Cardinality(S) -> S] : \A i, j \in 1..Cardinality(S) : s[i] = s[j] => i = j}

\* Query with this_is_a_partition_key = "123456": the items of the partition,
\* in the order the table keeps them (one fixed order of the item set)
TableQuery(table) ==
  CHOOSE s \in Orderings({it \in table :
                            it.this_is_a_partition_key = AttrS(PARTITION_VALUE)}) : TRUE

(* --------------------------- object storage ---------------------------- *)
S3Object(bucket, key, content_type, content_length, derived) ==
  [bucket |-> bucket, key |-> key, content_type |-> content_type,
   content_length |-> content_length, derived |-> derived]

\* the objects users have uploaded
InitialObjects ==
  {S3Object(BUCKET, NAME_AB, IMAGE_PNG, 2048, FALSE),
   S3Object(BUCKET, NAME_V, IMAGE_SVG, 7, FALSE),
   S3Object(BUCKET, NAME_TX, TEXT_PLAIN, 0, FALSE),
   S3Object(BUCKET, NAME_TN, TEXT_PLAIN, 12, FALSE)}

ThumbnailLength == 128

\* the table before the first invocation: it holds the record an earlier
\* upload of object "v" left, when the object was 3 bytes long
InitialTables ==
  {{PutItem(S3ObjectInfo(S3Uri(BUCKET, NAME_V), NAME_V, IMAGE_SVG, 3))}}

\* PutObject: upsert by (bucket, key)
StoragePut(storage, object) ==
  {o \in storage : ~(o.bucket = object.bucket /\ o.key = object.key)} \cup {object}

(* ----------------------- notifications and payloads -------------------- *)
\* the notification the storage sends for an object it holds
Notification(object) ==
  Record(Some(EV_PUT), Some(object.bucket), Some(UrlEncode(object.key)))

\* the record of an object removal, which the filter of get_file_props
\* rejects by its event name
RemovalRecord == Record(Some(EV_DELETE), Some(BUCKET), Some(NAME_V))

\* records the filter of get_file_props rejects
RejectedRecords ==
  {RemovalRecord,
   Record(Some(EV_PUT), Some(<<>>), Some(NAME_V)),
   Record(Some(EV_PUT), Some(BUCKET), None)}

\* the records batches are made of
RecordPool(storage) == {Notification(o) : o \in storage} \cup {RemovalRecord}

\* the batches: up to MaxBatch records of the pool, or one rejected record
Batches(storage) ==
  UNION {[1..n -> RecordPool(storage)] : n \in 0..MaxBatch}
  \cup {<<r>> : r \in RejectedRecords}

\* the event payload: serde_json::Value with or without "Records" and "time";
\* well_formed tells whether the value parses as an S3Event.  A payload with
\* both fields carries at most one record.
Payloads(storage) ==
  {[records |-> Some(b), well_formed |-> TRUE, time |-> FALSE] :
      b \in Batches(storage)}
  \cup {[records |-> Some(b), well_formed |-> TRUE, time |-> TRUE] :
      b \in {c \in Batches(storage) : Len(c) <= 1}}
  \cup {[records |-> Some(<<>>), well_formed |-> FALSE, time |-> t] : t \in BOOLEAN}
  \cup {[records |-> None, well_formed |-> TRUE, time |-> t] : t \in BOOLEAN}

NoPayload == [records |-> None, well_formed |-> TRUE, time |-> FALSE]

(* ------------------------------- state --------------------------------- *)
Procs == {1, 2}    \* invocations the runtime can have in flight
SeqProcs == {1}    \* one invocation at a time

VARIABLES
  db,           \* the items of table object_uploads
  s3,           \* the objects of the storage service
  outbox,       \* the emails the mail transport accepted, oldest first
  invocations,  \* number of invocations dispatched so far
  cleared,      \* -1, or the length of the batch the last completed
                \* delete_s3_info_from_db removed, while no put followed
  pc,           \* position of each invocation
  payload,      \* event.payload of each invocation
  records,      \* records.into_iter(): the records not yet taken
  record,       \* the record the for loop of s3_event_handler is at
  idx,          \* its position in the batch, from 1 (0 before the loop)
  cur,          \* bucket, object_name, s3_uri, object_type, object_size
  list,         \* context.list
  di,           \* position of the for loop of delete_s3_info_from_db
  result,       \* what function_handler returned: "none" (still running),
                \* "Ok", "Err" or "panic"
  log,          \* the calls made for the current record, or by the report
                \* cycle, with their outcome
  seen,         \* positions of the records the for loop has taken
  fetched_prefixed, \* those of them whose object_name starts with
                \* "thumbnail-" and whose get_object answered
  db0,          \* the table when the invocation started
  queried_after \* value of cleared when the invocation queried the table

shared == <<db, s3, outbox>>
upload_locals == <<records, record, idx, cur, seen, fetched_prefixed>>
report_locals == <<list, di, queried_after>>
vars == <<db, s3, outbox, invocations, cleared, pc, payload, records, record,
          idx, cur, list, di, result, log, seen, fetched_prefixed, db0,
          queried_after>>

NoRecord == Record(None, None, None)

NoCur == [bucket |-> <<>>, object_name |-> <<>>, s3_uri |-> <<>>,
          object_type |-> <<>>, object_size |-> 0]

Event(op, i, ok) == [op |-> op, i |-> i, ok |-> ok]

Logged(p, op, i, ok) == log' = [log EXCEPT ![p] = Append(@, Event(op, i, ok))]

Init ==
  /\ db \in InitialTables
  /\ s3 = InitialObjects
  /\ outbox = <<>>
  /\ invocations = 0
  /\ cleared = -1
  /\ pc = [p \in Procs |-> "idle"]
  /\ payload = [p \in Procs |-> NoPayload]
  /\ records = [p \in Procs |-> <<>>]
  /\ record = [p \in Procs |-> NoRecord]
  /\ idx = [p \in Procs |-> 0]
  /\ cur = [p \in Procs |-> NoCur]
  /\ list = [p \in Procs |-> <<>>]
  /\ di = [p \in Procs |-> 1]
  /\ result = [p \in Procs |-> "none"]
  /\ log = [p \in Procs |-> <<>>]
  /\ seen = [p \in Procs |-> {}]
  /\ fetched_prefixed = [p \in Procs |-> {}]
  /\ db0 = [p \in Procs |-> {}]
  /\ queried_after = [p \in Procs |-> -1]

(* --------------------------- function_handler -------------------------- *)
\* function_handler: the payload is routed by the presence of "Records",
\* then of "time"
FunctionHandler_TimeFirst(p, pl) ==
  /\ payload' = [payload EXCEPT ![p] = pl]
  /\ IF pl.time
     THEN /\ pc' = [pc EXCEPT ![p] = "query"]
          /\ UNCHANGED <<records, result>>
     ELSE IF IsSome(pl.records)
          THEN IF pl.well_formed
               THEN /\ pc' = [pc EXCEPT ![p] = "loop"]
                    /\ records' = [records EXCEPT ![p] = Unwrap(pl.records)]
                    /\ result' = result
               ELSE /\ pc' = [pc EXCEPT ![p] = "done"]
                    /\ result' = [result EXCEPT ![p] = "panic"]
                    /\ records' = records
          ELSE /\ pc' = [pc EXCEPT ![p] = "done"]
               /\ result' = [result EXCEPT ![p] = "Ok"]
               /\ records' = records

FunctionHandler(p, pl) ==
  /\ payload' = [payload EXCEPT ![p] = pl]
  /\ IF IsSome(pl.records)
     THEN IF pl.well_formed
          THEN /\ pc' = [pc EXCEPT ![p] = "loop"]
               /\ records' = [records EXCEPT ![p] = Unwrap(pl.records)]
               /\ result' = result
          ELSE \* serde_json::from_value(value).unwrap() panics
               /\ pc' = [pc EXCEPT ![p] = "done"]
               /\ result' = [result EXCEPT ![p] = "panic"]
               /\ records' = records
     ELSE IF pl.time
          THEN /\ pc' = [pc EXCEPT ![p] = "query"]
               /\ UNCHANGED <<records, result>>
          ELSE /\ pc' = [pc EXCEPT ![p] = "done"]
               /\ result' = [result EXCEPT ![p] = "Ok"]
               /\ records' = records

\* the runtime dispatches an event to an idle instance
Invoke(p) ==
  /\ pc[p] = "idle"
  /\ invocations < MaxInvocations
  /\ invocations' = invocations + 1
  /\ \E pl \in Payloads(s3) : FunctionHandler(p, pl)
  /\ db0' = [db0 EXCEPT ![p] = db]
  /\ UNCHANGED <<shared, cleared, record, idx, cur, seen, fetched_prefixed,
                 report_locals, log>>

\* the invocation is over: the next event finds fresh locals
Return(p) ==
  /\ pc[p] = "done"
  /\ pc' = [pc EXCEPT ![p] = "idle"]
  /\ payload' = [payload EXCEPT ![p] = NoPayload]
  /\ records' = [records EXCEPT ![p] = <<>>]
  /\ record' = [record EXCEPT ![p] = NoRecord]
  /\ idx' = [idx EXCEPT ![p] = 0]
  /\ cur' = [cur EXCEPT ![p] = NoCur]
  /\ list' = [list EXCEPT ![p] = <<>>]
  /\ di' = [di EXCEPT ![p] = 1]
  /\ result' = [result EXCEPT ![p] = "none"]
  /\ log' = [log EXCEPT ![p] = <<>>]
  /\ seen' = [seen EXCEPT ![p] = {}]
  /\ fetched_prefixed' = [fetched_prefixed EXCEPT ![p] = {}]
  /\ db0' = [db0 EXCEPT ![p] = {}]
  /\ queried_after' = [queried_after EXCEPT ![p] = -1]
  /\ UNCHANGED <<shared, invocations, cleared>>

(* --------------------------- s3_event_handler -------------------------- *)
\* continue: the for loop goes back to its head
Continue(p) ==
  /\ pc' = [pc EXCEPT ![p] = "loop"]
  /\ result' = result

\* return Ok(()) from s3_event_handler, and so from function_handler
ReturnOk(p) ==
  /\ pc' = [pc EXCEPT ![p] = "done"]
  /\ result' = [result EXCEPT ![p] = "Ok"]

\* head of the for loop: the iterator is exhausted and Ok(()) is returned, or
\* it yields the next record: get_file_props, object_name, s3_uri
NextRecord(p) ==
  /\ pc[p] = "loop"
  /\ IF records[p] = <<>>
     THEN /\ ReturnOk(p)
          /\ UNCHANGED <<upload_locals, log>>
     ELSE LET rec == Head(records[p])
              i == idx[p] + 1
              props == GetFileProps(rec)
          IN /\ records' = [records EXCEPT ![p] = Tail(@)]
             /\ record' = [record EXCEPT ![p] = rec]
             /\ idx' = [idx EXCEPT ![p] = i]
             /\ seen' = [seen EXCEPT ![p] = @ \cup {i}]
             /\ fetched_prefixed' = fetched_prefixed
             /\ IF props = None
                THEN /\ log' = [log EXCEPT ![p] = <<Event("get_file_props", i, FALSE)>>]
                     /\ Continue(p)
                     /\ cur' = [cur EXCEPT ![p] = NoCur]
                ELSE LET bucket == Unwrap(props).bucket
                         object_name == ObjectName(Unwrap(props).key)
                     IN /\ log' = [log EXCEPT ![p] = <<Event("get_file_props", i, TRUE)>>]
                        /\ cur' = [cur EXCEPT ![p] =
                                     [NoCur EXCEPT !.bucket = bucket,
                                                   !.object_name = object_name,
                                                   !.s3_uri = S3Uri(bucket, object_name)]]
                        /\ pc' = [pc EXCEPT ![p] = "get_object"]
                        /\ result' = result
  /\ UNCHANGED <<shared, invocations, cleared, payload, report_locals, db0>>

\* s3_client.get_object() answered: content type and length are read
GetObjectOk(p) ==
  /\ pc[p] = "get_object"
  /\ \E o \in s3 :
       /\ o.bucket = cur[p].bucket
       /\ o.key = cur[p].object_name
       /\ cur' = [cur EXCEPT ![p].object_type = o.content_type,
                             ![p].object_size = o.content_length]
  /\ fetched_prefixed' = [fetched_prefixed EXCEPT ![p] =
       IF StartsWith(cur[p].object_name, THUMBNAIL_PREFIX)
       THEN @ \cup {idx[p]} ELSE @]
  /\ Logged(p, "get_object", idx[p], TRUE)
  /\ pc' = [pc EXCEPT ![p] = "put_item"]
  /\ UNCHANGED <<shared, invocations, cleared, payload, records, record, idx,
                 seen, report_locals, result, db0>>

\* s3_client.get_object() failed: the record is skipped
GetObjectFailed_Return(p) ==
  /\ pc[p] = "get_object"
  /\ Logged(p, "get_object", idx[p], FALSE)
  /\ ReturnOk(p)
  /\ UNCHANGED <<shared, invocations, cleared, payload, upload_locals,
                 report_locals, db0>>

GetObjectFailed(p) ==
  /\ pc[p] = "get_object"
  /\ Logged(p, "get_object", idx[p], FALSE)
  /\ Continue(p)
  /\ UNCHANGED <<shared, invocations, cleared, payload, upload_locals,
                 report_locals, db0>>

\* put_s3_info_in_db answered, then the recursion guard and the format test
PutInfo_FailureSkips(p) ==
  /\ pc[p] = "put_item"
  /\ \E ok \in BOOLEAN :
       LET s3_info == S3ObjectInfo(cur[p].s3_uri, cur[p].object_name,
                                   cur[p].object_type, cur[p].object_size)
       IN /\ db' = IF ok THEN TablePut(db, PutItem(s3_info)) ELSE db
          /\ cleared' = IF ok THEN -1 ELSE cleared
          /\ IF ~ok
             THEN /\ Logged(p, "put_item", idx[p], ok)
                  /\ Continue(p)
             ELSE IF RecursionGuard(cur[p].object_name)
             THEN /\ log' = [log EXCEPT ![p] =
                      @ \o <<Event("put_item", idx[p], ok),
                             Event("guard", idx[p], TRUE)>>]
                  /\ ReturnOk(p)
             ELSE /\ Logged(p, "put_item", idx[p], ok)
                  /\ IF IsImage(cur[p].object_type) /\ IsSupported(cur[p].object_type)
                     THEN /\ pc' = [pc EXCEPT ![p] = "get_file"]
                          /\ result' = result
                     ELSE Continue(p)
  /\ UNCHANGED <<s3, outbox, invocations, payload, upload_locals,
                 report_locals, db0>>

PutInfo(p) ==
  /\ pc[p] = "put_item"
  /\ \E ok \in BOOLEAN :
       LET s3_info == S3ObjectInfo(cur[p].s3_uri, cur[p].object_name,
                                   cur[p].object_type, cur[p].object_size)
       IN /\ db' = IF ok THEN TablePut(db, PutItem(s3_info)) ELSE db
          /\ cleared' = IF ok THEN -1 ELSE cleared
          /\ IF RecursionGuard(cur[p].object_name)
             THEN /\ log' = [log EXCEPT ![p] =
                      @ \o <<Event("put_item", idx[p], ok),
                             Event("guard", idx[p], TRUE)>>]
                  /\ ReturnOk(p)
             ELSE /\ Logged(p, "put_item", idx[p], ok)
                  /\ IF IsImage(cur[p].object_type) /\ IsSupported(cur[p].object_type)
                     THEN /\ pc' = [pc EXCEPT ![p] = "get_file"]
                          /\ result' = result
                     ELSE Continue(p)
  /\ UNCHANGED <<s3, outbox, invocations, payload, upload_locals,
                 report_locals, db0>>

\* s3_client.get_file answered, then get_thumbnail on the bytes
GetFile(p) ==
  /\ pc[p] = "get_file"
  /\ \E fetched \in BOOLEAN, generated \in BOOLEAN :
       IF ~fetched
       THEN /\ ~generated
            /\ Logged(p, "get_file", idx[p], FALSE)
            /\ Continue(p)
       ELSE /\ log' = [log EXCEPT ![p] =
                @ \o <<Event("get_file", idx[p], TRUE),
                       Event("get_thumbnail", idx[p], generated)>>]
            /\ IF generated
               THEN /\ pc' = [pc EXCEPT ![p] = "put_file"]
                    /\ result' = result
               ELSE Continue(p)
  /\ UNCHANGED <<shared, invocations, cleared, payload, upload_locals,
                 report_locals, db0>>

\* s3_client.put_file answered: the thumbnail is stored or the error logged
PutFile(p) ==
  /\ pc[p] = "put_file"
  /\ \E ok \in BOOLEAN :
       /\ s3' = IF ok
                THEN StoragePut(s3, S3Object(cur[p].bucket,
                                             ThumbnailKey(cur[p].object_name),
                                             IMAGE_PNG, ThumbnailLength, TRUE))
                ELSE s3
       /\ Logged(p, "put_file", idx[p], ok)
  /\ Continue(p)
  /\ UNCHANGED <<db, outbox, invocations, cleared, payload, upload_locals,
                 report_locals, db0>>

(* ------------------------ send_daily_report_mail ----------------------- *)
\* tt.render("email_body", &context): one row of four cells per record
Render(infos) ==
  [i \in 1..Len(infos) |->
     <<infos[i].object_name, infos[i].object_type,
       ToString(infos[i].object_size), infos[i].s3_uri>>]

\* get_s3_info_from_db answered Ok: every item is converted
QueryOk(p) ==
  /\ pc[p] = "query"
  /\ LET items == TableQuery(db)
         infos == [i \in 1..Len(items) |-> ConvertAttributeMapIntoS3Info(items[i])]
     IN IF \E i \in 1..Len(items) : infos[i] = None
        THEN /\ pc' = [pc EXCEPT ![p] = "done"]
             /\ result' = [result EXCEPT ![p] = "panic"]
             /\ list' = list
        ELSE /\ pc' = [pc EXCEPT ![p] = "delete"]
             /\ list' = [list EXCEPT ![p] = [i \in 1..Len(items) |-> Unwrap(infos[i])]]
             /\ result' = result
  /\ Logged(p, "query", 0, TRUE)
  /\ queried_after' = [queried_after EXCEPT ![p] = cleared]
  /\ UNCHANGED <<shared, invocations, cleared, payload, upload_locals, di, db0>>

\* get_s3_info_from_db answered Err: send_daily_report_mail returns
QueryFailed_Proceeds(p) ==
  /\ pc[p] = "query"
  /\ Logged(p, "query", 0, FALSE)
  /\ pc' = [pc EXCEPT ![p] = "send"]
  /\ UNCHANGED <<shared, invocations, cleared, payload, upload_locals,
                 report_locals, result, db0>>

QueryFailed(p) ==
  /\ pc[p] = "query"
  /\ Logged(p, "query", 0, FALSE)
  /\ pc' = [pc EXCEPT ![p] = "done"]
  /\ result' = [result EXCEPT ![p] = "Ok"]
  /\ UNCHANGED <<shared, invocations, cleared, payload, upload_locals,
                 report_locals, db0>>

\* delete_s3_info_from_db: one delete_item answered Ok, the loop goes on
DeleteItemOk_Purges(p) ==
  /\ pc[p] = "delete"
  /\ di[p] <= Len(list[p])
  /\ db' = {}
  /\ Logged(p, "delete_item", di[p], TRUE)
  /\ di' = [di EXCEPT ![p] = @ + 1]
  /\ UNCHANGED <<s3, outbox, invocations, cleared, pc, payload, upload_locals,
                 list, queried_after, result, db0>>

DeleteItemOk(p) ==
  /\ pc[p] = "delete"
  /\ di[p] <= Len(list[p])
  /\ db' = TableDelete(db, DeleteKey(list[p][di[p]]))
  /\ Logged(p, "delete_item", di[p], TRUE)
  /\ di' = [di EXCEPT ![p] = @ + 1]
  /\ UNCHANGED <<s3, outbox, invocations, cleared, pc, payload, upload_locals,
                 list, queried_after, result, db0>>

\* delete_s3_info_from_db: one delete_item answered Err, `?` returns it and
\* send_daily_report_mail prints it
DeleteItemFailed_Propagates(p) ==
  /\ pc[p] = "delete"
  /\ di[p] <= Len(list[p])
  /\ log' = [log EXCEPT ![p] =
       @ \o <<Event("delete_item", di[p], FALSE),
              Event("delete_s3_info_from_db", 0, FALSE)>>]
  /\ pc' = [pc EXCEPT ![p] = "done"]
  /\ result' = [result EXCEPT ![p] = "Err"]
  /\ UNCHANGED <<shared, invocations, cleared, payload, upload_locals,
                 report_locals, db0>>

DeleteItemFailed(p) ==
  /\ pc[p] = "delete"
  /\ di[p] <= Len(list[p])
  /\ log' = [log EXCEPT ![p] =
       @ \o <<Event("delete_item", di[p], FALSE),
              Event("delete_s3_info_from_db", 0, FALSE)>>]
  /\ pc' = [pc EXCEPT ![p] = "send"]
  /\ UNCHANGED <<shared, invocations, cleared, payload, upload_locals,
                 report_locals, result, db0>>

\* delete_s3_info_from_db: the loop is over, Ok(()) is returned
DeleteDone(p) ==
  /\ pc[p] = "delete"
  /\ di[p] > Len(list[p])
  /\ Logged(p, "delete_s3_info_from_db", 0, TRUE)
  /\ cleared' = Len(list[p])
  /\ pc' = [pc EXCEPT ![p] = "send"]
  /\ UNCHANGED <<shared, invocations, payload, upload_locals, report_locals,
                 result, db0>>

\* the rest of send_daily_report_mail: render, read the two environment
\* variables, send the mail
SendMail_RollsBack(p) ==
  /\ pc[p] = "send"
  /\ \E username \in BOOLEAN, password \in BOOLEAN, sent \in BOOLEAN :
       IF ~(username /\ password)
       THEN /\ ~sent
            /\ Logged(p, "env_var", 0, FALSE)
            /\ outbox' = outbox
            /\ db' = db \cup {PutItem(list[p][i]) : i \in 1..Len(list[p])}
       ELSE /\ Logged(p, "send", 0, sent)
            /\ outbox' = IF sent THEN Append(outbox, Render(list[p])) ELSE outbox
            /\ db' = IF sent THEN db
                     ELSE db \cup {PutItem(list[p][i]) : i \in 1..Len(list[p])}
  /\ pc' = [pc EXCEPT ![p] = "done"]
  /\ result' = [result EXCEPT ![p] = "Ok"]
  /\ UNCHANGED <<s3, invocations, cleared, payload, upload_locals,
                 report_locals, db0>>

SendMail_OnlyStored(p) ==
  /\ pc[p] = "send"
  /\ \E username \in BOOLEAN, password \in BOOLEAN, sent \in BOOLEAN :
       IF ~(username /\ password)
       THEN /\ ~sent
            /\ Logged(p, "env_var", 0, FALSE)
            /\ outbox' = outbox
       ELSE /\ Logged(p, "send", 0, sent)
            /\ outbox' = IF sent
                         THEN Append(outbox,
                                Render(SelectSeq(list[p], LAMBDA r : PutItem(r) \in db)))
                         ELSE outbox
  /\ pc' = [pc EXCEPT ![p] = "done"]
  /\ result' = [result EXCEPT ![p] = "Ok"]
  /\ UNCHANGED <<db, s3, invocations, cleared, payload, upload_locals,
                 report_locals, db0>>

SendMail(p) ==
  /\ pc[p] = "send"
  /\ \E username \in BOOLEAN, password \in BOOLEAN, sent \in BOOLEAN :
       IF ~(username /\ password)
       THEN /\ ~sent
            /\ Logged(p, "env_var", 0, FALSE)
            /\ outbox' = outbox
       ELSE /\ Logged(p, "send", 0, sent)
            /\ outbox' = IF sent THEN Append(outbox, Render(list[p])) ELSE outbox
  /\ pc' = [pc EXCEPT ![p] = "done"]
  /\ result' = [result EXCEPT ![p] = "Ok"]
  /\ UNCHANGED <<db, s3, invocations, cleared, payload, upload_locals,
                 report_locals, db0>>

(* ---------------------------- specification ---------------------------- *)
Step(p) ==
  \/ Invoke(p)
  \/ NextRecord(p)
  \/ GetObjectOk(p)
  \/ GetObjectFailed(p)
  \/ PutInfo(p)
  \/ GetFile(p)
  \/ PutFile(p)
  \/ QueryOk(p)
  \/ QueryFailed(p)
  \/ DeleteItemOk(p)
  \/ DeleteItemFailed(p)
  \/ DeleteDone(p)
  \/ SendMail(p)
  \/ Return(p)

\* invocations run one at a time
Next == \E p \in SeqProcs : Step(p)

Spec == Init /\ [][Next]_vars

(* ---------------------- overlapping invocations ------------------------ *)
\* The platform runs one instance of the function per event in flight: two
\* invocations overlap, each with its own locals, on the same table, storage
\* and mail transport.  Every await of an invocation is a point where the
\* other one can run.  The events are timer signals and notifications of one
\* record for a stored object.
RacePayloads(storage) ==
  {[records |-> None, well_formed |-> TRUE, time |-> TRUE]}
  \cup {[records |-> Some(<<Notification(o)>>), well_formed |-> TRUE,
          time |-> FALSE] : o \in storage}

InvokeOverlapping(p) ==
  /\ pc[p] = "idle"
  /\ invocations < MaxInvocations
  /\ invocations' = invocations + 1
  /\ \E pl \in RacePayloads(s3) : FunctionHandler(p, pl)
  /\ db0' = [db0 EXCEPT ![p] = db]
  /\ UNCHANGED <<shared, cleared, record, idx, cur, seen, fetched_prefixed,
                 report_locals, log>>

RaceStep(p) ==
  \/ InvokeOverlapping(p)
  \/ NextRecord(p)
  \/ GetObjectOk(p)
  \/ GetObjectFailed(p)
  \/ PutInfo(p)
  \/ GetFile(p)
  \/ PutFile(p)
  \/ QueryOk(p)
  \/ QueryFailed(p)
  \/ DeleteItemOk(p)
  \/ DeleteItemFailed(p)
  \/ DeleteDone(p)
  \/ SendMail(p)
  \/ Return(p)

RaceNext == \E p \in Procs : RaceStep(p)

RaceSpec == Init /\ [][RaceNext]_vars

(* ------------------------- vocabulary of the claims -------------------- *)
\* the invocation was routed to s3_event_handler / send_daily_report_mail
IsUpload(p) == IsSome(payload[p].records) /\ payload[p].well_formed
IsReport(p) == payload[p].records = None /\ payload[p].time

\* event.records as the invocation received it
Batch(p) == Unwrap(payload[p].records)

Events(p) == {log[p][k] : k \in 1..Len(log[p])}
Called(p, op) == \E e \in Events(p) : e.op = op
Succeeded(p, op) == \E e \in Events(p) : e.op = op /\ e.ok
Failed(p, op) == \E e \in Events(p) : e.op = op /\ ~e.ok

\* the name begins with the ten characters t h u m b n a i l -
HasThumbnailPrefix(name) ==
  /\ Len(name) >= 10
  /\ \A k \in 1..10 : name[k] = THUMBNAIL_PREFIX[k]

\* the record names an event other than an object creation, or lacks a
\* bucket name or an object key
Rejected(rec) ==
  \/ rec.event_name = None
  \/ ~StartsWith(Unwrap(rec.event_name), OBJECT_CREATED)
  \/ rec.bucket \in {None, Some(<<>>)}
  \/ rec.key \in {None, Some(<<>>)}

\* calls that fetch, persist or thumbnail a record
RecordWork == {"get_object", "put_item", "get_file", "get_thumbnail", "put_file"}

(* --------------------------------- C1 ---------------------------------- *)
\* C1: when s3_event_handler has returned, every record of the batch was
\* taken by the loop, whatever failed on the way, unless the recursion guard
\* returned at a record whose object_name starts with "thumbnail-"; then the
\* records up to that one were taken.
C1_OnlyGuardStopsBatch ==
  \A p \in Procs :
    (pc[p] = "done" /\ IsUpload(p)) =>
      /\ result[p] = "Ok"
      /\ \/ records[p] = <<>> /\ seen[p] = 1..Len(Batch(p))
         \/ /\ Called(p, "guard")
            /\ HasThumbnailPrefix(cur[p].object_name)
            /\ seen[p] = 1..idx[p]

\* a batch whose first record was rejected or could not be fetched and whose
\* second record was persisted
C1_Witness ==
  \E p \in Procs :
    /\ pc[p] = "done" /\ IsUpload(p) /\ Len(Batch(p)) = 2
    /\ \/ Rejected(Batch(p)[1])
       \/ 1 \notin fetched_prefixed[p]
          /\ HasThumbnailPrefix(ObjectName(Unwrap(Batch(p)[1].key)))
    /\ \E e \in Events(p) : e.op = "put_item" /\ e.i = 2 /\ e.ok

(* --------------------------------- C2 ---------------------------------- *)
\* C2: a query that follows a delete_s3_info_from_db which returned Ok for
\* the batch of the query before it, with no put in between, returns no
\* record.
C2_DeleteAllThenQueryEmpty ==
  \A p \in Procs :
    (Succeeded(p, "query") /\ result[p] # "panic" /\ queried_after[p] >= 0)
      => list[p] = <<>>

\* the query that follows the deletion of a batch of at least one record
C2_Witness ==
  \E p \in Procs :
    Succeeded(p, "query") /\ queried_after[p] >= 1 /\ list[p] = <<>>

(* --------------------------------- C3 ---------------------------------- *)
\* C3: once the delete loop of a report cycle is over, every item of the batch
\* that comes after an item whose delete failed has had its delete attempted.
C3_DeleteFailureDoesNotAbort ==
  \A p \in Procs :
    pc[p] \in {"send", "done"} =>
      \A e \in Events(p) :
        (e.op = "delete_item" /\ ~e.ok) =>
          \A j \in (e.i + 1)..Len(list[p]) :
            \E f \in Events(p) : f.op = "delete_item" /\ f.i = j

(* --------------------------------- C4 ---------------------------------- *)
\* C4: when the query of a report cycle failed, the cycle is over with Ok, it
\* has issued no delete and sent no mail, and the table is as it was when the
\* cycle started.
C4_QueryFailureAbortsCycle ==
  \A p \in Procs :
    Failed(p, "query") =>
      /\ pc[p] = "done" /\ result[p] = "Ok"
      /\ ~Called(p, "delete_item") /\ ~Called(p, "send")
      /\ db = db0[p]

\* a failed query over a table that holds records
C4_Witness ==
  \E p \in Procs : Failed(p, "query") /\ pc[p] = "done" /\ db # {}

(* --------------------------------- C5 ---------------------------------- *)
\* C5: when a report cycle ends without a mail having been sent, the records
\* the table held when the cycle started are still in the table.
C5_FailedCycleKeepsRecords ==
  \A p \in Procs :
    (pc[p] = "done" /\ IsReport(p) /\ ~Succeeded(p, "send")) =>
      db0[p] \subseteq db

(* --------------------------------- C6 ---------------------------------- *)
\* C6: function_handler fails exactly when the payload has a Records field
\* that does not parse; every other invocation returns Ok, whatever failed.
C6_OnlyMalformedInputFails ==
  \A p \in Procs :
    pc[p] = "done" =>
      IF IsSome(payload[p].records) /\ ~payload[p].well_formed
      THEN result[p] = "panic"
      ELSE result[p] = "Ok"

\* an invocation that returned Ok although a call of it failed
C6_Witness ==
  \E p \in Procs :
    /\ pc[p] = "done" /\ result[p] = "Ok"
    /\ \E e \in Events(p) :
         e.op \in {"delete_item", "send", "env_var", "put_item", "put_file"} /\ ~e.ok

(* --------------------------------- C7 ---------------------------------- *)
\* the invocation has fetched, persisted or thumbnailed a record after i
LaterWork(p, i) == \E e \in Events(p) : e.i > i /\ e.op \in RecordWork

\* positions of the records taken so far that pass the filter with an
\* object_name starting with "thumbnail-"
Prefixed(p) ==
  {i \in seen[p] : /\ ~Rejected(Batch(p)[i])
                   /\ HasThumbnailPrefix(ObjectName(Unwrap(Batch(p)[i].key)))}

\* C7 as stated: once a record whose normalized object_name starts with
\* "thumbnail-" has been taken, no later record is fetched, persisted or
\* thumbnailed.
C7_PrefixedRecordStopsBatch ==
  \A p \in Procs : \A i \in Prefixed(p) : ~LaterWork(p, i)

\* C7 as amended: once get_object has answered for a record whose normalized
\* object_name starts with "thumbnail-", the handler issues that record's put
\* and returns Ok: the loop never leaves that record, and no later record is
\* fetched, persisted or thumbnailed.
C7_FetchedPrefixedRecordStopsBatch ==
  \A p \in Procs : \A i \in fetched_prefixed[p] :
    /\ idx[p] = i /\ seen[p] = 1..i
    /\ pc[p] \in {"put_item", "done"}
    /\ ~LaterWork(p, i)
    /\ pc[p] = "done" =>
         /\ Called(p, "put_item") /\ Called(p, "guard")
         /\ result[p] = "Ok"

\* the guard returned while the batch still held a record
C7_Witness ==
  \E p \in Procs :
    /\ pc[p] = "done" /\ fetched_prefixed[p] = {1}
    /\ records[p] # <<>>
    /\ Succeeded(p, "put_item")

(* --------------------------------- C8 ---------------------------------- *)
\* C8: after the put of a record the guard has returned exactly when the
\* object_name starts with "thumbnail-"; every thumbnail in the storage has a
\* key "thumbnail-" + name whose name does not start with "thumbnail-"; and no
\* thumbnail is fetched for, generated for or stored for the notification of
\* a stored thumbnail.
C8_GuardExactlyOnPrefix ==
  /\ \A p \in Procs :
       Called(p, "put_item") =>
         (Called(p, "guard") <=> HasThumbnailPrefix(cur[p].object_name))
  /\ \A o \in s3 :
       o.derived =>
         /\ HasThumbnailPrefix(o.key)
         /\ ~HasThumbnailPrefix(SubSeq(o.key, 11, Len(o.key)))
  /\ \A p \in Procs :
       (\E o \in s3 : o.derived /\ record[p] = Notification(o)) =>
         /\ pc[p] \notin {"get_file", "put_file"}
         /\ ~Called(p, "get_file") /\ ~Called(p, "put_file")

\* the notification of a stored thumbnail was handled and the guard returned
C8_Witness ==
  \E p \in Procs :
    /\ pc[p] = "done" /\ Called(p, "guard")
    /\ \E o \in s3 : o.derived /\ record[p] = Notification(o)

(* --------------------------------- C9 ---------------------------------- *)
\* C9: for a record the filter rejects, or whose get_object failed, the
\* handler issues no put to the table and no put to the storage.
C9_SkippedRecordPutsNothing ==
  \A p \in Procs :
    (idx[p] >= 1 /\ (Rejected(record[p]) \/ Failed(p, "get_object"))) =>
      /\ pc[p] \in {"loop", "done"}
      /\ ~Called(p, "put_item") /\ ~Called(p, "put_file")

\* a record of a removal event, and a record whose get_object failed, skipped
C9_Witness ==
  \E p \in Procs :
    /\ pc[p] = "loop" /\ idx[p] = 2
    /\ Batch(p)[1].event_name = Some(EV_DELETE)
    /\ Failed(p, "get_object")

(* --------------------------------- C10 --------------------------------- *)
\* get_object answered for the current record with a content type outside
\* the allow-list
UnsupportedFetched(p) ==
  /\ Succeeded(p, "get_object")
  /\ cur[p].object_type \notin {IMAGE_PNG, IMAGE_JPEG, IMAGE_JPG}

\* the put of the current record was issued, and took effect if it succeeded
PutIssued(p) ==
  /\ Called(p, "put_item")
  /\ Succeeded(p, "put_item") =>
       PutItem(S3ObjectInfo(cur[p].s3_uri, cur[p].object_name,
                            cur[p].object_type, cur[p].object_size)) \in db

\* the object's bytes are not fetched and no thumbnail is generated or stored
NoThumbnailWork(p) ==
  /\ pc[p] \notin {"get_file", "put_file"}
  /\ ~Called(p, "get_file") /\ ~Called(p, "get_thumbnail")
  /\ ~Called(p, "put_file")

\* C10 as stated: for a record with a content type outside the allow-list
\* nothing is fetched or thumbnailed, the put is issued, and the handler does
\* not return before the batch is exhausted.
C10_UnsupportedTypeContinues ==
  \A p \in Procs :
    UnsupportedFetched(p) =>
      /\ NoThumbnailWork(p)
      /\ pc[p] # "put_item" => PutIssued(p)
      /\ pc[p] = "done" => records[p] = <<>>

\* C10 as amended: the same, except that the handler returns Ok before the
\* batch is exhausted when the record's object_name starts with "thumbnail-".
C10_UnsupportedTypeContinuesUnlessGuard ==
  \A p \in Procs :
    UnsupportedFetched(p) =>
      /\ NoThumbnailWork(p)
      /\ pc[p] # "put_item" => PutIssued(p)
      /\ pc[p] = "done" =>
           /\ result[p] = "Ok"
           /\ \/ records[p] = <<>>
              \/ HasThumbnailPrefix(cur[p].object_name)
      /\ (pc[p] = "loop" /\ ~HasThumbnailPrefix(cur[p].object_name)) =>
           seen[p] = 1..idx[p]

\* an image/svg+xml record was persisted and the loop went on to a record
\* that remained
C10_Witness ==
  \E p \in Procs :
    /\ UnsupportedFetched(p) /\ cur[p].object_type = IMAGE_SVG
    /\ pc[p] = "loop" /\ records[p] # <<>>
    /\ Succeeded(p, "put_item")

(* --------------------------------- C11 --------------------------------- *)
\* the current record is a supported image whose object_name does not start
\* with "thumbnail-"
SupportedImage(p) ==
  /\ cur[p].object_type \in {IMAGE_PNG, IMAGE_JPEG, IMAGE_JPG}
  /\ ~HasThumbnailPrefix(cur[p].object_name)

\* the thumbnail of the current record is in the storage
ThumbnailStored(p) ==
  \E o \in s3 :
    /\ o.bucket = cur[p].bucket
    /\ o.key = THUMBNAIL_PREFIX \o cur[p].object_name
    /\ o.derived

\* C11: when put_s3_info_in_db failed for a supported image whose name does
\* not start with "thumbnail-", the handler goes on with that same record: it
\* fetches the bytes, and when the fetch and the generation succeed it puts
\* the thumbnail, which is in the storage when that put succeeds.
C11_PutFailureKeepsThumbnail ==
  \A p \in Procs :
    (Failed(p, "put_item") /\ SupportedImage(p)) =>
      /\ ~Called(p, "guard")
      /\ pc[p] = "get_file" \/ Called(p, "get_file")
      /\ Succeeded(p, "get_thumbnail") => (pc[p] = "put_file" \/ Called(p, "put_file"))
      /\ Succeeded(p, "put_file") => ThumbnailStored(p)

\* the record of a png was not persisted and its thumbnail was stored
C11_Witness ==
  \E p \in Procs :
    /\ Failed(p, "put_item") /\ SupportedImage(p)
    /\ Succeeded(p, "put_file") /\ ThumbnailStored(p)
    /\ \A it \in db : it.s3_uri # AttrS(cur[p].s3_uri)

(* --------------------------------- C12 --------------------------------- *)
\* the item put_s3_info_in_db sends for the current record
CurrentItem(p) ==
  PutItem(S3ObjectInfo(cur[p].s3_uri, cur[p].object_name,
                       cur[p].object_type, cur[p].object_size))

\* C12: the table holds at most one record per s3_uri; putting the current
\* record twice leaves the table as putting it once does; and after a put
\* that succeeded the table holds the record just put and no other record
\* with its s3_uri.
C12_PutIsIdempotentUpsert ==
  /\ \A a, b \in db : a.s3_uri = b.s3_uri => a = b
  /\ \A p \in Procs :
       pc[p] = "put_item" =>
         TablePut(TablePut(db, CurrentItem(p)), CurrentItem(p))
           = TablePut(db, CurrentItem(p))
  /\ \A p \in Procs :
       Succeeded(p, "put_item") =>
         /\ CurrentItem(p) \in db
         /\ \A it \in db : it.s3_uri = CurrentItem(p).s3_uri => it = CurrentItem(p)

\* the put of object "v" replaced the record of its earlier 3-byte version
C12_Witness ==
  \E p \in Procs :
    /\ Succeeded(p, "put_item")
    /\ \E old \in db0[p] :
         /\ old.s3_uri = CurrentItem(p).s3_uri
         /\ old.object_size # CurrentItem(p).object_size
         /\ old \notin db
    /\ CurrentItem(p) \in db

(* --------------------------------- C13 --------------------------------- *)
\* what get_s3_info_from_db reads back from a table: the conversion of every
\* item of the partition it queries
ReadBack(table) ==
  {ConvertAttributeMapIntoS3Info(it) :
     it \in {i \in table : i.this_is_a_partition_key = AttrS(PARTITION_VALUE)}}

\* C13: the item put_s3_info_in_db writes for a record decodes, with
\* convert_attribute_map_into_s3_info, to a record equal to it in its four
\* fields, object_size as the integer it was, and after a put that succeeded
\* that item is what the table holds; no item a query is about to read fails
\* to decode; and every record a query returned is the decoding of an item
\* of the table whose four attributes encode exactly that record.
C13_PutGetRoundTrip ==
  /\ \A p \in Procs :
       Succeeded(p, "put_item") =>
         /\ CurrentItem(p) \in db
         /\ ConvertAttributeMapIntoS3Info(CurrentItem(p))
              = Some(S3ObjectInfo(cur[p].s3_uri, cur[p].object_name,
                                  cur[p].object_type, cur[p].object_size))
  /\ \A p \in Procs : pc[p] = "query" => None \notin ReadBack(db)
  /\ \A p \in Procs :
       Succeeded(p, "query") =>
         /\ result[p] # "panic"
         /\ \A i \in 1..Len(list[p]) : PutItem(list[p][i]) \in db0[p]

\* a report cycle read back the record of object "a b" with its size 2048
C13_Witness ==
  \E p \in Procs :
    /\ Succeeded(p, "query") /\ pc[p] = "delete"
    /\ \E i \in 1..Len(list[p]) :
         list[p][i] = S3ObjectInfo(S3Uri(BUCKET, NAME_AB), NAME_AB, IMAGE_PNG, 2048)

(* --------------------------------- C14 --------------------------------- *)
\* positions and calls of s3_event_handler and of send_daily_report_mail
UploadPcs == {"loop", "get_object", "put_item", "get_file", "put_file"}
ReportPcs == {"query", "delete", "send"}
UploadOps == {"get_file_props", "get_object", "put_item", "guard", "get_file",
              "get_thumbnail", "put_file"}
ReportOps == {"query", "delete_item", "delete_s3_info_from_db", "env_var", "send"}

\* C14: an invocation whose payload has a Records field runs the upload
\* processor and nothing of the report cycle, also when a time field is
\* present; one whose payload has a time field and no Records field runs the
\* report cycle and nothing of the upload processor; one whose payload has
\* neither returns Ok at once, having made no call and left the table as it
\* was.
C14_RoutesByFieldPresence ==
  \A p \in Procs :
    pc[p] # "idle" =>
      /\ IsSome(payload[p].records) =>
           /\ pc[p] \in UploadPcs \cup {"done"}
           /\ \A e \in Events(p) : e.op \in UploadOps
           /\ list[p] = <<>> /\ queried_after[p] = -1
      /\ (payload[p].records = None /\ payload[p].time) =>
           /\ pc[p] \in ReportPcs \cup {"done"}
           /\ \A e \in Events(p) : e.op \in ReportOps
           /\ Called(p, "query") \/ pc[p] = "query"
           /\ idx[p] = 0 /\ seen[p] = {}
      /\ (payload[p].records = None /\ ~payload[p].time) =>
           /\ pc[p] = "done" /\ result[p] = "Ok"
           /\ log[p] = <<>> /\ idx[p] = 0 /\ list[p] = <<>>
           /\ db = db0[p]

\* a payload with both fields whose record was persisted by the upload
\* processor
C14_Witness ==
  \E p \in Procs :
    /\ IsSome(payload[p].records) /\ payload[p].time
    /\ pc[p] = "done" /\ result[p] = "Ok"
    /\ Succeeded(p, "put_item") /\ CurrentItem(p) \in db

(* --------------------------------- C15 --------------------------------- *)
\* the delete_item calls of the cycle so far, in the order they were made
DeleteCalls(p) == SelectSeq(log[p], LAMBDA e : e.op = "delete_item")

\* the send step was reached: a credential was missing or the mail was handed
\* to the transport
SendStepTaken(p) == Called(p, "env_var") \/ Called(p, "send")

\* C15: the delete calls of a report cycle are made for the records of the
\* batch its query returned, in the batch's order, and remove nothing else
\* from the table; the send step comes after delete_s3_info_from_db has
\* returned and is the last call of the cycle; and when a credential is
\* missing or the send fails, every record whose delete succeeded stays
\* deleted.
C15_DeleteBatchThenSend ==
  \A p \in Procs :
    IsReport(p) =>
      /\ \A k \in 1..Len(DeleteCalls(p)) :
           /\ DeleteCalls(p)[k].i = k /\ k <= Len(list[p])
           /\ DeleteCalls(p)[k].ok =>
                \A it \in db : ItemKey(it) # DeleteKey(list[p][k])
      /\ \A it \in db0[p] \ db :
           \E k \in 1..Len(list[p]) : it = PutItem(list[p][k])
      /\ db \subseteq db0[p]
      /\ SendStepTaken(p) =>
           /\ Called(p, "delete_s3_info_from_db")
           /\ log[p][Len(log[p])].op \in {"env_var", "send"}
           /\ \A k \in 1..(Len(log[p]) - 1) : log[p][k].op \notin {"env_var", "send"}
           /\ pc[p] = "done"

\* the mail of a cycle that had deleted a record was not sent, and the record
\* is not in the table
C15_Witness ==
  \E p \in Procs :
    /\ IsReport(p) /\ pc[p] = "done"
    /\ Failed(p, "send")
    /\ Len(list[p]) >= 1 /\ Succeeded(p, "delete_item")
    /\ PutItem(list[p][1]) \in db0[p] \ db

(* --------------------------------- C16 --------------------------------- *)
\* the rows of the k-th mail
Rows(k) == {outbox[k][i] : i \in 1..Len(outbox[k])}

\* C16: the mail a report cycle sends renders the batch its query returned,
\* whatever another cycle has deleted since; so two cycles that both sent
\* have each put their whole batch in a mail of their own.
C16_MailRendersBatchAsRead ==
  /\ \A p \in Procs :
       Succeeded(p, "send") => \E k \in 1..Len(outbox) : outbox[k] = Render(list[p])
  /\ \A p, q \in Procs :
       (p # q /\ Succeeded(p, "send") /\ Succeeded(q, "send")) =>
         \E k, l \in 1..Len(outbox) :
           /\ k # l
           /\ outbox[k] = Render(list[p]) /\ outbox[l] = Render(list[q])

\* two report cycles that started on the same table of one record both read
\* it, both had their delete of it succeed, both sent, and the record is a
\* row of both mails
C16_Witness ==
  /\ \A p \in Procs : IsReport(p) /\ pc[p] = "done" /\ Succeeded(p, "send")
  /\ \A p \in Procs : Succeeded(p, "delete_item")
  /\ \A p \in Procs : Cardinality(db0[p]) = 1 /\ Len(list[p]) = 1
  /\ \A p, q \in Procs : db0[p] = db0[q] /\ list[p] = list[q]
  /\ Len(outbox) = 2
  /\ Rows(1) \cap Rows(2) # {}

(* --------------------------------- C17 --------------------------------- *)
\* C17: whenever a delete_item of a report cycle takes effect, each item it
\* removes from the table encodes, in its four fields, the record the cycle
\* read in its batch at that position.
C17_DeletesOnlyWhatItRead ==
  [][\A p \in Procs :
       DeleteItemOk(p) =>
         \A it \in db \ db' :
           ConvertAttributeMapIntoS3Info(it) = Some(list[p][di[p]])]_vars

(* --------------------------------- C18 --------------------------------- *)
\* the step is one of invocation p
Acts(p) == pc'[p] # pc[p] \/ log'[p] # log[p]

\* C18: a step of the upload processor makes only calls of the upload
\* processor, sends no mail and leaves every key of the table in the table;
\* a step of the report cycle makes only calls of the report cycle, leaves
\* the storage alone, adds nothing to the table and removes from it only
\* items whose key is that of a record of the batch the cycle read; the
\* dispatch and the return of an invocation change neither table, storage
\* nor mail.
C18_Frame ==
  [][\A p \in Procs :
       Acts(p) =>
         /\ pc[p] \in UploadPcs =>
              /\ pc'[p] \in UploadPcs \cup {"done"}
              /\ \A k \in 1..Len(log'[p]) : log'[p][k].op \in UploadOps
              /\ outbox' = outbox
              /\ \A it \in db : \E it2 \in db' : ItemKey(it2) = ItemKey(it)
         /\ pc[p] \in ReportPcs =>
              /\ pc'[p] \in ReportPcs \cup {"done"}
              /\ \A k \in 1..Len(log'[p]) : log'[p][k].op \in ReportOps
              /\ s3' = s3
              /\ db' \subseteq db
              /\ \A it \in db \ db' :
                   \E k \in 1..Len(list[p]) : ItemKey(it) = DeleteKey(list[p][k])
         /\ pc[p] \in {"idle", "done"} => UNCHANGED shared]_vars

\* a report cycle has removed the record it read while the record an
\* overlapping upload put is in the table
C18_Witness ==
  \E p, q \in Procs :
    /\ IsReport(p) /\ Succeeded(p, "delete_item")
    /\ db0[p] # {} /\ db0[p] \cap db = {}
    /\ IsUpload(q) /\ Succeeded(q, "put_item") /\ CurrentItem(q) \in db
    /\ \A k \in 1..Len(list[p]) : list[p][k].s3_uri # cur[q].s3_uri

====
